---- MODULE Spec2Model ----
(***************************************************************************)
(* Model of vtkAMRUtilities (Parallel/vtkAMRUtilities.cxx): the origin      *)
(* resolver, the box builder, the local metadata assembler, the count-      *)
(* prefixed box codec and the metadata distributor, run SPMD over the ranks *)
(* of one vtkMultiProcessController.                                        *)
(*                                                                          *)
(* Real values (double) are fixed-point: a coordinate x is held as the      *)
(* integer x * Scale.  Every value used is a multiple of 1/Scale, so sums,  *)
(* differences and comparisons are exact.                                   *)
(***************************************************************************)
EXTENDS Integers, Sequences, FiniteSets, TLC

\* ------------------------------------------------------------------ bounds
MaxRanks == 2
MaxLevels == 2
MaxSlots == 2

\* ------------------------------------------------------- program constants
\* units per 1.0 of a double
Scale == 2 * 2
\* min[0] = min[1] = min[2] = 100
Sentinel == 100 * Scale
\* sizeof( int )
SizeofInt == 4
\* sizeof( double )
SizeofDouble == 8

Axes == 0 .. 2

\* ----------------------------------------------------------------- helpers
RECURSIVE SumTo(_, _)
\* f[0] + ... + f[n-1]
SumTo(f, n) == IF n <= 0 THEN 0 ELSE SumTo(f, n - 1) + f[n - 1]

RECURSIVE Concat(_, _)
\* f[0] \o ... \o f[n-1]
Concat(f, n) == IF n <= 0 THEN << >> ELSE Concat(f, n - 1) \o f[n - 1]

\* round( num / den ) of <cmath>: nearest integer, halfway cases away from
\* zero; den # 0
Round(num, den) ==
  LET n == IF den < 0 THEN 0 - num ELSE num
      d == IF den < 0 THEN 0 - den ELSE den
  IN IF n >= 0 THEN (2 * n + d) \div (2 * d)
               ELSE 0 - ((2 * (0 - n) + d) \div (2 * d))

\* ------------------------------------------------------------------- grids
\* a NULL vtkUniformGrid pointer
NULL == [null |-> TRUE]

\* vtkUniformGrid as this file reads it: GetOrigin, GetSpacing,
\* GetDimensions (points per axis) and GetBounds
\* (xmin,xmax,ymin,ymax,zmin,zmax)
MakeGrid(o, h, dims) ==
  [origin  |-> o,
   spacing |-> h,
   dims    |-> dims,
   bounds  |-> [k \in 0 .. 5 |->
                 IF k % 2 = 0 THEN o[k \div 2]
                 ELSE o[k \div 2] + (dims[k \div 2] - 1) * h[k \div 2]]]

Vec(x, y, z) == [a \in Axes |-> IF a = 0 THEN x ELSE IF a = 1 THEN y ELSE z]

\* the grids a slot of the given level may hold
GridsAt(level) ==
  IF level = 0
  THEN { \* origin (0,0,0), spacing 1.0, 4x4x1 cells
         MakeGrid(Vec(0, 0, 0), Vec(Scale, Scale, Scale), Vec(5, 5, 2)),
         \* origin (150,2,-1), spacing 1.0, 2x2x0 cells
         MakeGrid(Vec(150 * Scale, 2 * Scale, 0 - Scale),
                  Vec(Scale, Scale, Scale), Vec(3, 3, 1)),
         \* origin (-1.5,0.5,101), spacing 1.0, 1x0x2 cells
         MakeGrid(Vec(0 - 6, 2, 101 * Scale),
                  Vec(Scale, Scale, Scale), Vec(2, 1, 3)) }
  ELSE IF level = 1
  THEN { \* origin (0.25,-0.75,1.25), spacing 0.5, 2x1x0 cells
         MakeGrid(Vec(1, 0 - 3, 5), Vec(2, 2, 2), Vec(3, 2, 1)) }
  ELSE { \* origin (1,1,0), spacing 0.25, 1x1x1 cells
         MakeGrid(Vec(Scale, Scale, 0), Vec(1, 1, 1), Vec(2, 2, 2)) }

\* ------------------------------------------------------------ wire format
RECURSIVE NatBytes(_, _)
\* the n low bytes of v >= 0, least significant first
NatBytes(v, n) ==
  IF n = 0 THEN << >> ELSE << v % 256 >> \o NatBytes(v \div 256, n - 1)

RECURSIVE NatOf(_)
\* the number whose bytes, least significant first, are b
NatOf(b) == IF b = << >> THEN 0 ELSE b[1] + 256 * NatOf(Tail(b))

\* memcpy out of an n-byte two's complement integer (host byte order,
\* little-endian)
IntToBytes(v, n) ==
  IF v >= 0 THEN NatBytes(v, n)
  ELSE [i \in 1 .. n |-> 255 - NatBytes((0 - v) - 1, n)[i]]

\* memcpy into a two's complement integer of Len(b) bytes
BytesToInt(b) ==
  IF b[Len(b)] >= 128
  THEN 0 - (NatOf([i \in 1 .. Len(b) |-> 255 - b[i]]) + 1)
  ELSE NatOf(b)

\* a byte of new unsigned char[] nothing has written yet: not a byte value
Unwritten == 0 - 1

\* n bytes of buffer starting at byte offset ptr (0-based)
Bytes(buffer, ptr, n) == [i \in 1 .. n |-> buffer[ptr + i]]

\* vtkAMRBox::GetBytesize(): two ints (level, process id), lo[3], hi[3],
\* and the doubles of the dataset origin and the grid spacing
GetBytesize == 8 * SizeofInt + 6 * SizeofDouble

\* vtkAMRBox::Serialize: the fields back to back, no padding
BoxSerialize(box) ==
  IntToBytes(box.level, SizeofInt) \o IntToBytes(box.processId, SizeofInt)
  \o Concat([a \in Axes |-> IntToBytes(box.lo[a], SizeofInt)], 3)
  \o Concat([a \in Axes |-> IntToBytes(box.hi[a], SizeofInt)], 3)
  \o Concat([a \in Axes |-> IntToBytes(box.origin[a], SizeofDouble)], 3)
  \o Concat([a \in Axes |-> IntToBytes(box.spacing[a], SizeofDouble)], 3)

\* vtkAMRBox::Deserialize of the record at byte offset ptr of buffer
BoxDeserialize(buffer, ptr) ==
  [level     |-> BytesToInt(Bytes(buffer, ptr, SizeofInt)),
   processId |-> BytesToInt(Bytes(buffer, ptr + SizeofInt, SizeofInt)),
   lo        |-> [a \in Axes |->
                   BytesToInt(Bytes(buffer, ptr + (2 + a) * SizeofInt,
                                    SizeofInt))],
   hi        |-> [a \in Axes |->
                   BytesToInt(Bytes(buffer, ptr + (5 + a) * SizeofInt,
                                    SizeofInt))],
   origin    |-> [a \in Axes |->
                   BytesToInt(Bytes(buffer,
                                    ptr + 8 * SizeofInt + a * SizeofDouble,
                                    SizeofDouble))],
   spacing   |-> [a \in Axes |->
                   BytesToInt(Bytes(buffer,
                                    ptr + 8 * SizeofInt
                                        + (3 + a) * SizeofDouble,
                                    SizeofDouble))]]

\* --------------------------------------------------------------- hierarchy
\* vtkHierarchicalBoxDataSet::GetNumberOfLevels
GetNumberOfLevels(amrData) == Cardinality(DOMAIN amrData)

\* vtkHierarchicalBoxDataSet::GetNumberOfDataSets
GetNumberOfDataSets(amrData, level) == Cardinality(DOMAIN amrData[level])

\* no metadata entry for a slot
NoMetaData == [absent |-> TRUE]

\* a default-constructed vtkAMRBox
EmptyBox ==
  [level |-> 0, processId |-> 0, lo |-> Vec(0, 0, 0), hi |-> Vec(0, 0, 0),
   origin |-> Vec(0, 0, 0), spacing |-> Vec(0, 0, 0)]

\* ------------------------------------------------ ComputeDataSetOrigin
RECURSIVE LocalMin(_, _)
\* min[] after the loop over the first n slots of level 0
LocalMin(amrData, n) ==
  IF n <= 0 THEN Vec(Sentinel, Sentinel, Sentinel)
  ELSE LET min     == LocalMin(amrData, n - 1)
           gridPtr == amrData[0][n - 1]
       IN IF gridPtr # NULL
          THEN [a \in Axes |->
                 IF gridPtr.bounds[2 * a] < min[a]
                 THEN gridPtr.bounds[2 * a] ELSE min[a]]
          ELSE min

\* vtkCommunicator::MIN_OP over the values v[0] .. v[n-1]
MinOp(v, n) == CHOOSE m \in { v[i] : i \in 0 .. n - 1 } :
                 \A i \in 0 .. n - 1 : m <= v[i]

\* ------------------------------------------------- CreateAMRBoxForGrid
\* round( x / 0 ) is not finite and its conversion to int is undefined:
\* undefInt is the int the build makes of it
VARIABLE undefInt

\* CreateAMRBoxForGrid without the clamp of ndim[i] to at least 1
CreateAMRBoxForGridNoClamp(origin, myGrid, myBox) ==
  LET gridOrigin == myGrid.origin
      h          == myGrid.spacing
      ndim       == [i \in Axes |-> myGrid.dims[i] - 1]
      lo         == [i \in Axes |->
                      IF h[i] = 0 THEN undefInt
                      ELSE Round(gridOrigin[i] - origin[i], h[i])]
      hi         == [i \in Axes |-> Round(lo[i] + (ndim[i] - 1), 1)]
  IN [myBox EXCEPT !.lo = lo, !.hi = hi, !.origin = origin, !.spacing = h]

\* CreateAMRBoxForGrid with the quotient truncated to int instead of rounded
CreateAMRBoxForGridTruncate(origin, myGrid, myBox) ==
  LET gridOrigin == myGrid.origin
      h          == myGrid.spacing
      cells      == [i \in Axes |-> myGrid.dims[i] - 1]
      ndim       == [i \in Axes |-> IF cells[i] < 1 THEN 1 ELSE cells[i]]
      lo         == [i \in Axes |->
                      IF h[i] = 0 THEN undefInt
                      ELSE IF gridOrigin[i] - origin[i] >= 0
                      THEN (gridOrigin[i] - origin[i]) \div h[i]
                      ELSE 0 - ((origin[i] - gridOrigin[i]) \div h[i])]
      hi         == [i \in Axes |-> Round(lo[i] + (ndim[i] - 1), 1)]
  IN [myBox EXCEPT !.lo = lo, !.hi = hi, !.origin = origin, !.spacing = h]

CreateAMRBoxForGrid(origin, myGrid, myBox) ==
  LET gridOrigin == myGrid.origin
      h          == myGrid.spacing
      cells      == [i \in Axes |-> myGrid.dims[i] - 1]
      ndim       == [i \in Axes |-> IF cells[i] < 1 THEN 1 ELSE cells[i]]
      lo         == [i \in Axes |->
                      IF h[i] = 0 THEN undefInt
                      ELSE Round(gridOrigin[i] - origin[i], h[i])]
      hi         == [i \in Axes |-> Round(lo[i] + (ndim[i] - 1), 1)]
  IN [myBox EXCEPT !.lo = lo, !.hi = hi, !.origin = origin, !.spacing = h]

\* ------------------------------------------------ ComputeLocalMetaData
\* ComputeLocalMetaData stamping process 0 whatever the caller's rank
ComputeLocalMetaDataRankZero(origin, myAMRData, process, table) ==
  [level \in DOMAIN myAMRData |->
    [idx \in DOMAIN myAMRData[level] |->
      IF myAMRData[level][idx] # NULL
      THEN [CreateAMRBoxForGrid(origin, myAMRData[level][idx], EmptyBox)
              EXCEPT !.level = level, !.processId = 0]
      ELSE table[level][idx]]]

\* ComputeLocalMetaData without myBox.SetLevel( level )
ComputeLocalMetaDataNoLevel(origin, myAMRData, process, table) ==
  [level \in DOMAIN myAMRData |->
    [idx \in DOMAIN myAMRData[level] |->
      IF myAMRData[level][idx] # NULL
      THEN [CreateAMRBoxForGrid(origin, myAMRData[level][idx], EmptyBox)
              EXCEPT !.processId = process]
      ELSE table[level][idx]]]

\* the metadata table after the loops over all levels and slots
ComputeLocalMetaData(origin, myAMRData, process, table) ==
  [level \in DOMAIN myAMRData |->
    [idx \in DOMAIN myAMRData[level] |->
      IF myAMRData[level][idx] # NULL
      THEN [CreateAMRBoxForGrid(origin, myAMRData[level][idx], EmptyBox)
              EXCEPT !.level = level, !.processId = process]
      ELSE table[level][idx]]]

\* --------------------------------------------------- SerializeMetaData
RECURSIVE BoxesOfLevel(_, _, _, _)
\* the boxes pushed for the first n slots of one level
BoxesOfLevel(amrData, table, level, n) ==
  IF n <= 0 THEN << >>
  ELSE BoxesOfLevel(amrData, table, level, n - 1)
       \o (IF amrData[level][n - 1] # NULL
           THEN << table[level][n - 1] >> ELSE << >>)

RECURSIVE CollectBoxesFromLevel1(_, _, _)
\* CollectBoxes with the level loop started at level 1
CollectBoxesFromLevel1(amrData, table, n) ==
  IF n <= 1 THEN << >>
  ELSE CollectBoxesFromLevel1(amrData, table, n - 1)
       \o BoxesOfLevel(amrData, table, n - 1,
                       GetNumberOfDataSets(amrData, n - 1))

RECURSIVE CollectBoxes(_, _, _)
\* boxList after the loops over the first n levels (STEP 0)
CollectBoxes(amrData, table, n) ==
  IF n <= 0 THEN << >>
  ELSE CollectBoxes(amrData, table, n - 1)
       \o BoxesOfLevel(amrData, table, n - 1,
                       GetNumberOfDataSets(amrData, n - 1))

\* SerializeMetaData with numBytes not counting the count prefix
SerializeMetaDataNoPrefixSize(amrData, table) ==
  LET boxList == CollectBoxes(amrData, table, GetNumberOfLevels(amrData))
      N       == Len(boxList)
  IN [numBytes |-> GetBytesize * N,
      buffer   |-> IntToBytes(N, SizeofInt)
                   \o Concat([i \in 0 .. N - 1 |->
                               BoxSerialize(boxList[i + 1])], N)]

\* buffer and numBytes as SerializeMetaData leaves them
SerializeMetaData(amrData, table) ==
  LET boxList == CollectBoxes(amrData, table, GetNumberOfLevels(amrData))
      N       == Len(boxList)
  IN [numBytes |-> SizeofInt + GetBytesize * N,
      buffer   |-> IntToBytes(N, SizeofInt)
                   \o Concat([i \in 0 .. N - 1 |->
                               BoxSerialize(boxList[i + 1])], N)]

\* ------------------------------------------------- DeserializeMetaData
\* DeserializeMetaData with ptr not advanced after a box: every element is
\* decoded from the first record
DeserializeMetaDataNoAdvance(buffer, start, numBytes) ==
  LET N == BytesToInt(Bytes(buffer, start, SizeofInt))
  IN [i \in 1 .. N |-> BoxDeserialize(buffer, start + SizeofInt)]

\* boxList after decoding the bytes at offset start of buffer
DeserializeMetaData(buffer, start, numBytes) ==
  LET N == BytesToInt(Bytes(buffer, start, SizeofInt))
  IN [i \in 1 .. N |->
       BoxDeserialize(buffer, start + SizeofInt + (i - 1) * GetBytesize)]

\* one past the last byte offset DeserializeMetaData reads
DeserializeEnd(buffer, start) ==
  start + SizeofInt
  + BytesToInt(Bytes(buffer, start, SizeofInt)) * GetBytesize

\* -------------------------------------------------- DistributeMetaData
RECURSIVE ReceiveBufferSize(_, _)
\* rbufferSize after the loop has added rcvcounts[1] .. rcvcounts[n-1] to
\* rcvcounts[0] (STEP 2)
ReceiveBufferSize(rcvcounts, n) ==
  IF n <= 1 THEN rcvcounts[0]
  ELSE ReceiveBufferSize(rcvcounts, n - 1) + rcvcounts[n - 1]

RECURSIVE OffSetAtOwnCount(_, _)
\* offSet[ i ] computed as offSet[ i-1 ] + rcvcounts[ i ]
OffSetAtOwnCount(rcvcounts, i) ==
  IF i = 0 THEN 0 ELSE OffSetAtOwnCount(rcvcounts, i - 1) + rcvcounts[i]

RECURSIVE OffSetAt(_, _)
\* offSet[ i ] (STEP 3)
OffSetAt(rcvcounts, i) ==
  IF i = 0 THEN 0 ELSE OffSetAt(rcvcounts, i - 1) + rcvcounts[i - 1]

RECURSIVE GatherInto(_, _, _, _, _)
\* vtkMultiProcessController::AllGatherV at one rank: the receive buffer
\* after the send buffers of ranks 0 .. n-1 were copied to their offsets
GatherInto(size, send, recvLengths, offsets, n) ==
  IF n <= 0 THEN [p \in 1 .. size |-> Unwritten]
  ELSE LET before == GatherInto(size, send, recvLengths, offsets, n - 1)
       IN [p \in 1 .. size |->
            IF offsets[n - 1] < p /\ p <= offsets[n - 1] + recvLengths[n - 1]
            THEN send[n - 1][p - offsets[n - 1]]
            ELSE before[p]]

\* ------------------------------------------------------------------- state
VARIABLES
  hasController,  \* myController != NULL
  numProcs,       \* GetNumberOfProcesses(); 1 without a controller
  amrData,        \* per rank: level -> slot -> grid or NULL
  metaData,       \* per rank: level -> slot -> box or NoMetaData
  min,            \* per rank: min[3] of ComputeDataSetOrigin
  origin,         \* per rank: origin[3] of CollectAMRMetaData
  pc,             \* per rank: where its CollectAMRMetaData call stands
  buffer,         \* per rank: the send buffer of DistributeMetaData
  numBytes,       \* per rank: its length
  rcvcounts,      \* per rank: rank -> byte count
  rbufferSize,    \* per rank: length of rcvBuffer
  offSet,         \* per rank: rank -> offset into rcvBuffer
  rcvBuffer,      \* per rank: the gathered bytes
  amrBoxes,       \* per rank: rank -> decoded box list
  collectives,    \* per rank: the collectives it has issued, in order
  refinementRatio, \* per rank: level -> ratio set by SetRefinementRatio
  ndebug,         \* the build compiles assert() out
  calls           \* number of CollectAMRMetaData calls begun

vars == << hasController, numProcs, amrData, metaData, min, origin, pc,
           buffer, numBytes, rcvcounts, rbufferSize, offSet, rcvBuffer,
           amrBoxes, collectives, refinementRatio, ndebug, undefInt,
           calls >>

\* what no step of CollectAMRMetaData touches
others == << refinementRatio, ndebug, undefInt, calls >>

Ranks == 0 .. numProcs - 1
Levels == 0 .. MaxLevels - 1
Slots == 0 .. MaxSlots - 1

\* what one slot of a level can be: empty everywhere, or a grid owned by
\* exactly one rank
SlotChoices(level, n) ==
  { [owner |-> 0 - 1, grid |-> NULL] }
  \cup { [owner |-> r, grid |-> g] : r \in 0 .. n - 1, g \in GridsAt(level) }

AllSlotChoices(n) == UNION { SlotChoices(level, n) : level \in Levels }

\* the hierarchy of rank r under a layout: the grids r owns, NULL elsewhere
DataOf(layout, r) ==
  [level \in Levels |->
    [idx \in Slots |->
      IF layout[level][idx].owner = r THEN layout[level][idx].grid
      ELSE NULL]]

\* no refinement ratio set for any level
NoRatios == << >>

\* the locals of a call that has not begun
NoLocals ==
  /\ min = [r \in Ranks |-> Vec(0, 0, 0)]
  /\ origin = [r \in Ranks |-> Vec(0, 0, 0)]
  /\ buffer = [r \in Ranks |-> << >>]
  /\ numBytes = [r \in Ranks |-> 0]
  /\ rcvcounts = [r \in Ranks |-> << >>]
  /\ rbufferSize = [r \in Ranks |-> 0]
  /\ offSet = [r \in Ranks |-> << >>]
  /\ rcvBuffer = [r \in Ranks |-> << >>]
  /\ amrBoxes = [r \in Ranks |-> << >>]

\* every assert() of CollectAMRMetaData holds on the hierarchies of Init and
\* every spacing is positive, so all builds behave alike there
Init ==
  /\ hasController \in BOOLEAN
  /\ numProcs \in 1 .. MaxRanks
  /\ (~hasController) => numProcs = 1
  /\ \E layout \in [Levels -> [Slots -> AllSlotChoices(numProcs)]] :
       /\ \A level \in Levels : \A idx \in Slots :
            layout[level][idx] \in SlotChoices(level, numProcs)
       /\ amrData = [r \in Ranks |-> DataOf(layout, r)]
  /\ metaData = [r \in Ranks |-> [level \in Levels |->
                                   [idx \in Slots |-> NoMetaData]]]
  /\ NoLocals
  /\ pc = [r \in Ranks |-> "ComputeDataSetOrigin"]
  /\ collectives = [r \in Ranks |-> << >>]
  /\ refinementRatio = [r \in Ranks |-> NoRatios]
  /\ ndebug = FALSE
  /\ undefInt = 0
  /\ calls = 1

\* ----------------------------------------------------------------- actions
\* ComputeDataSetOrigin reducing whenever there is a controller, a single
\* process included
ComputeDataSetOriginAlwaysReduce(r) ==
  /\ pc[r] = "ComputeDataSetOrigin"
  /\ LET m == LocalMin(amrData[r], GetNumberOfDataSets(amrData[r], 0))
     IN /\ min' = [min EXCEPT ![r] = m]
        /\ IF hasController /\ numProcs >= 1
           THEN /\ pc' = [pc EXCEPT ![r] = "AllReduce0"]
                /\ UNCHANGED origin
           ELSE /\ origin' = [origin EXCEPT ![r] = m]
                /\ pc' = [pc EXCEPT ![r] = "ComputeLocalMetaData"]
  /\ collectives' = [collectives EXCEPT ![r] =
                       IF hasController /\ numProcs >= 1
                       THEN Append(@, "AllReduce") ELSE @]
  /\ UNCHANGED << others, hasController, numProcs,
                  amrData, metaData, buffer,
                  numBytes, rcvcounts, rbufferSize, offSet, rcvBuffer,
                  amrBoxes >>

\* rank r holds a grid at level 0
HasGridAtLevel0(r) ==
  \E idx \in DOMAIN amrData[r][0] : amrData[r][0][idx] # NULL

\* ComputeDataSetOrigin leaving out the reductions on a rank that holds no
\* level-0 grid
ComputeDataSetOriginSkipWhenEmpty(r) ==
  /\ pc[r] = "ComputeDataSetOrigin"
  /\ LET m == LocalMin(amrData[r], GetNumberOfDataSets(amrData[r], 0))
     IN /\ min' = [min EXCEPT ![r] = m]
        /\ IF hasController /\ numProcs > 1 /\ HasGridAtLevel0(r)
           THEN /\ pc' = [pc EXCEPT ![r] = "AllReduce0"]
                /\ UNCHANGED origin
           ELSE /\ origin' = [origin EXCEPT ![r] = m]
                /\ pc' = [pc EXCEPT ![r] = "ComputeLocalMetaData"]
  /\ collectives' = [collectives EXCEPT ![r] =
                       IF hasController /\ numProcs > 1 /\ HasGridAtLevel0(r)
                       THEN Append(@, "AllReduce") ELSE @]
  /\ UNCHANGED << others, hasController, numProcs,
                  amrData, metaData, buffer,
                  numBytes, rcvcounts, rbufferSize, offSet, rcvBuffer,
                  amrBoxes >>

\* ComputeDataSetOrigin up to its first collective, or to its return when
\* the call is single-process
ComputeDataSetOrigin(r) ==
  /\ pc[r] = "ComputeDataSetOrigin"
  /\ LET m == LocalMin(amrData[r], GetNumberOfDataSets(amrData[r], 0))
     IN /\ min' = [min EXCEPT ![r] = m]
        /\ IF hasController /\ numProcs > 1
           THEN /\ pc' = [pc EXCEPT ![r] = "AllReduce0"]
                /\ UNCHANGED origin
           ELSE /\ origin' = [origin EXCEPT ![r] = m]
                /\ pc' = [pc EXCEPT ![r] = "ComputeLocalMetaData"]
  /\ collectives' = [collectives EXCEPT ![r] =
                       IF hasController /\ numProcs > 1
                       THEN Append(@, "AllReduce") ELSE @]
  /\ UNCHANGED << others, hasController, numProcs,
                  amrData, metaData, buffer,
                  numBytes, rcvcounts, rbufferSize, offSet, rcvBuffer,
                  amrBoxes >>

\* controller->AllReduce(&min[a],&origin[a],1,MIN_OP): completes once every
\* rank has entered it
AllReduce(a) ==
  /\ \A r \in Ranks : pc[r] = (CASE a = 0 -> "AllReduce0"
                                 [] a = 1 -> "AllReduce1"
                                 [] OTHER -> "AllReduce2")
  /\ LET m == MinOp([r \in Ranks |-> min[r][a]], numProcs)
     IN origin' = [r \in Ranks |-> [origin[r] EXCEPT ![a] = m]]
  /\ pc' = [r \in Ranks |-> CASE a = 0 -> "AllReduce1"
                              [] a = 1 -> "AllReduce2"
                              [] OTHER -> "ComputeLocalMetaData"]
  /\ collectives' = [r \in Ranks |->
                       IF a < 2 THEN Append(collectives[r], "AllReduce")
                       ELSE collectives[r]]
  /\ UNCHANGED << others, hasController, numProcs,
                  amrData, metaData, min, buffer,
                  numBytes, rcvcounts, rbufferSize, offSet, rcvBuffer,
                  amrBoxes >>

\* STEP 1 of CollectAMRMetaData; the call returns here without a controller
LocalMetaData(r) ==
  /\ pc[r] = "ComputeLocalMetaData"
  /\ LET process == IF hasController THEN r ELSE 0
     IN metaData' = [metaData EXCEPT ![r] =
                       ComputeLocalMetaData(origin[r], amrData[r], process,
                                            metaData[r])]
  /\ pc' = [pc EXCEPT ![r] = IF hasController THEN "SerializeMetaData"
                             ELSE "done"]
  /\ UNCHANGED << collectives, others, hasController, numProcs,
                  amrData, min, origin, buffer,
                  numBytes, rcvcounts, rbufferSize, offSet, rcvBuffer,
                  amrBoxes >>

\* DistributeMetaData STEP 0, up to the AllGather
Serialize(r) ==
  /\ pc[r] = "SerializeMetaData"
  /\ LET s == SerializeMetaData(amrData[r], metaData[r])
     IN /\ buffer' = [buffer EXCEPT ![r] = s.buffer]
        /\ numBytes' = [numBytes EXCEPT ![r] = s.numBytes]
  /\ pc' = [pc EXCEPT ![r] = "AllGather"]
  /\ collectives' = [collectives EXCEPT ![r] = Append(@, "AllGather")]
  /\ UNCHANGED << others, hasController, numProcs,
                  amrData, metaData, min, origin,
                  rcvcounts, rbufferSize, offSet, rcvBuffer, amrBoxes >>

\* myController->AllGather( &numBytes, rcvcounts, 1) (STEP 1)
AllGather ==
  /\ \A r \in Ranks : pc[r] = "AllGather"
  /\ rcvcounts' = [r \in Ranks |-> [i \in Ranks |-> numBytes[i]]]
  /\ pc' = [r \in Ranks |-> "ComputeOffsets"]
  /\ UNCHANGED << collectives, others, hasController, numProcs,
                  amrData, metaData, min, origin,
                  buffer, numBytes, rbufferSize, offSet, rcvBuffer,
                  amrBoxes >>

\* STEP 2 and STEP 3, up to the AllGatherV
ComputeOffsets(r) ==
  /\ pc[r] = "ComputeOffsets"
  /\ rbufferSize' = [rbufferSize EXCEPT ![r] =
                       ReceiveBufferSize(rcvcounts[r], numProcs)]
  /\ offSet' = [offSet EXCEPT ![r] =
                  [i \in Ranks |-> OffSetAt(rcvcounts[r], i)]]
  /\ pc' = [pc EXCEPT ![r] = "AllGatherV"]
  /\ collectives' = [collectives EXCEPT ![r] = Append(@, "AllGatherV")]
  /\ UNCHANGED << others, hasController, numProcs,
                  amrData, metaData, min, origin,
                  buffer, numBytes, rcvcounts, rcvBuffer, amrBoxes >>

\* myController->AllGatherV( buffer, rcvBuffer, numBytes, rcvcounts, offSet )
\* (STEP 4)
AllGatherV ==
  /\ \A r \in Ranks : pc[r] = "AllGatherV"
  /\ rcvBuffer' = [r \in Ranks |->
                    GatherInto(rbufferSize[r], buffer, rcvcounts[r],
                               offSet[r], numProcs)]
  /\ pc' = [r \in Ranks |-> "Unpack"]
  /\ UNCHANGED << collectives, others, hasController, numProcs,
                  amrData, metaData, min, origin,
                  buffer, numBytes, rcvcounts, rbufferSize, offSet,
                  amrBoxes >>

\* STEP 5: unpack the receive buffer
Unpack(r) ==
  /\ pc[r] = "Unpack"
  /\ amrBoxes' = [amrBoxes EXCEPT ![r] =
                    [i \in Ranks |->
                      DeserializeMetaData(rcvBuffer[r], offSet[r][i],
                                          rcvcounts[r][i])]]
  /\ pc' = [pc EXCEPT ![r] = "CleanUp"]
  /\ UNCHANGED << collectives, others, hasController, numProcs,
                  amrData, metaData, min, origin,
                  buffer, numBytes, rcvcounts, rbufferSize, offSet,
                  rcvBuffer >>

\* STEP 6 and the return of DistributeMetaData: the buffers are deleted and
\* the local amrBoxes goes out of scope
CleanUp(r) ==
  /\ pc[r] = "CleanUp"
  /\ buffer' = [buffer EXCEPT ![r] = << >>]
  /\ rcvcounts' = [rcvcounts EXCEPT ![r] = << >>]
  /\ offSet' = [offSet EXCEPT ![r] = << >>]
  /\ rcvBuffer' = [rcvBuffer EXCEPT ![r] = << >>]
  /\ amrBoxes' = [amrBoxes EXCEPT ![r] = << >>]
  /\ pc' = [pc EXCEPT ![r] = "done"]
  /\ UNCHANGED << collectives, others, hasController, numProcs,
                  amrData, metaData, min, origin,
                  numBytes, rbufferSize >>

Next ==
  \/ \E r \in Ranks : ComputeDataSetOrigin(r)
  \/ \E a \in Axes : AllReduce(a)
  \/ \E r \in Ranks : LocalMetaData(r)
  \/ \E r \in Ranks : Serialize(r)
  \/ AllGather
  \/ \E r \in Ranks : ComputeOffsets(r)
  \/ AllGatherV
  \/ \E r \in Ranks : Unpack(r)
  \/ \E r \in Ranks : CleanUp(r)

Spec == Init /\ [][Next]_vars

\* ------------------------------------------------ repeated calls
\* calls of CollectAMRMetaData a run may begin
MaxCalls == 2

\* slot (level, idx) holds no grid on any rank
EmptyEverywhere(level, idx) ==
  \A q \in Ranks : amrData[q][level][idx] = NULL

\* Between two calls the caller removes the grid of one slot, or gives an
\* empty slot a grid owned by one rank, and every rank calls
\* CollectAMRMetaData again on the same hierarchy, whose metadata table it
\* leaves as the last call left it.
ChangeGrids ==
  /\ \A r \in Ranks : pc[r] = "done"
  /\ calls < MaxCalls
  /\ \E level \in Levels : \E idx \in Slots :
       IF EmptyEverywhere(level, idx)
       THEN \E q \in Ranks : \E g \in GridsAt(level) :
              amrData' = [amrData EXCEPT ![q][level][idx] = g]
       ELSE amrData' = [r \in Ranks |->
                         [amrData[r] EXCEPT ![level][idx] = NULL]]
  /\ calls' = calls + 1
  /\ pc' = [r \in Ranks |-> "ComputeDataSetOrigin"]
  /\ collectives' = [r \in Ranks |-> << >>]
  /\ min' = [r \in Ranks |-> Vec(0, 0, 0)]
  /\ origin' = [r \in Ranks |-> Vec(0, 0, 0)]
  /\ buffer' = [r \in Ranks |-> << >>]
  /\ numBytes' = [r \in Ranks |-> 0]
  /\ rcvcounts' = [r \in Ranks |-> << >>]
  /\ rbufferSize' = [r \in Ranks |-> 0]
  /\ offSet' = [r \in Ranks |-> << >>]
  /\ rcvBuffer' = [r \in Ranks |-> << >>]
  /\ amrBoxes' = [r \in Ranks |-> << >>]
  /\ UNCHANGED << hasController, numProcs, metaData, refinementRatio,
                  ndebug, undefInt >>

NextRecall == Next \/ ChangeGrids

SpecRecall == Init /\ [][NextRecall]_vars

\* ------------------------------------------ ComputeLevelRefinementRatio
\* levels and slots per level of the hierarchies given to
\* ComputeLevelRefinementRatio
MaxRatioLevels == 3
MaxRatioSlots == 1

\* grid spacings of those hierarchies: 0.25, 0.5, 0.75, 1.0
RatioSpacings == { 1, 2, 3, Scale }

\* what an int read from a box that was never filled in, or from a slot
\* that does not exist, may be
UndefinedRatios == { 0, 7 }

\* what reading such a box may do: end the process, or yield some ratio
UndefinedReads ==
  { [crashed |-> TRUE, ratio |-> 0] }
  \cup { [crashed |-> FALSE, ratio |-> v] : v \in UndefinedRatios }

\* vtkHierarchicalBoxDataSet::SetRefinementRatio
SetRefinementRatio(ratios, level, ratio) ==
  [l \in DOMAIN ratios \cup { level } |->
    IF l = level THEN ratio ELSE ratios[l]]

\* amr->GetMetaData(level,0,box) finds slot 0 and an entry published for it
HasMetaData(amr, table, level) ==
  /\ GetNumberOfDataSets(amr, level) >= 1
  /\ table[level][0] # NoMetaData

\* the value round(parentSpacing[0]/currentSpacing[0]) gives at one level;
\* undef is what the build yields when a box is not a published entry
RatioAt(amr, table, level, undef) ==
  IF HasMetaData(amr, table, level - 1) /\ HasMetaData(amr, table, level)
  THEN [crashed |-> FALSE,
        ratio   |-> Round(table[level - 1][0].spacing[0],
                          table[level][0].spacing[0])]
  ELSE undef[level]

RECURSIVE RatioLoopNoRoot(_, _, _, _, _, _)
\* RatioLoop without the SetRefinementRatio(0,ratio) of level 1
RatioLoopNoRoot(amr, table, ratios, assertsOn, undef, n) ==
  IF n <= 0 THEN [ratio |-> ratios, status |-> "running"]
  ELSE LET prev  == RatioLoopNoRoot(amr, table, ratios, assertsOn, undef,
                                    n - 1)
           ratio == RatioAt(amr, table, n, undef)
       IN IF prev.status # "running" THEN prev
          ELSE IF assertsOn /\ (GetNumberOfDataSets(amr, n - 1) < 1
                                \/ GetNumberOfDataSets(amr, n) < 1)
          THEN [prev EXCEPT !.status = "assert"]
          ELSE IF ratio.crashed THEN [prev EXCEPT !.status = "crashed"]
          ELSE [prev EXCEPT
                  !.ratio = SetRefinementRatio(prev.ratio, n, ratio.ratio)]

RECURSIVE RatioLoopFromRoot(_, _, _, _, _, _)
\* RatioLoop dividing the spacing of level 0 by the spacing of the level
RatioLoopFromRoot(amr, table, ratios, assertsOn, undef, n) ==
  IF n <= 0 THEN [ratio |-> ratios, status |-> "running"]
  ELSE LET prev  == RatioLoopFromRoot(amr, table, ratios, assertsOn, undef,
                                      n - 1)
           ratio == IF HasMetaData(amr, table, 0)
                       /\ HasMetaData(amr, table, n)
                    THEN [crashed |-> FALSE,
                          ratio   |-> Round(table[0][0].spacing[0],
                                            table[n][0].spacing[0])]
                    ELSE undef[n]
           root  == IF n = 1
                    THEN SetRefinementRatio(prev.ratio, 0, ratio.ratio)
                    ELSE prev.ratio
       IN IF prev.status # "running" THEN prev
          ELSE IF assertsOn /\ (GetNumberOfDataSets(amr, n - 1) < 1
                                \/ GetNumberOfDataSets(amr, n) < 1)
          THEN [prev EXCEPT !.status = "assert"]
          ELSE IF ratio.crashed THEN [prev EXCEPT !.status = "crashed"]
          ELSE [prev EXCEPT
                  !.ratio = SetRefinementRatio(root, n, ratio.ratio)]

RECURSIVE RatioLoop(_, _, _, _, _, _)
\* the ratios and the status after the iterations level = 1 .. n of the
\* loop over the hi-res levels
RatioLoop(amr, table, ratios, assertsOn, undef, n) ==
  IF n <= 0 THEN [ratio |-> ratios, status |-> "running"]
  ELSE LET prev  == RatioLoop(amr, table, ratios, assertsOn, undef, n - 1)
           ratio == RatioAt(amr, table, n, undef)
           root  == IF n = 1
                    THEN SetRefinementRatio(prev.ratio, 0, ratio.ratio)
                    ELSE prev.ratio
       IN IF prev.status # "running" THEN prev
          ELSE IF assertsOn /\ (GetNumberOfDataSets(amr, n - 1) < 1
                                \/ GetNumberOfDataSets(amr, n) < 1)
          THEN [prev EXCEPT !.status = "assert"]
          ELSE IF ratio.crashed THEN [prev EXCEPT !.status = "crashed"]
          ELSE [prev EXCEPT
                  !.ratio = SetRefinementRatio(root, n, ratio.ratio)]

\* the ratios and the status ComputeLevelRefinementRatio ends with
LevelRefinementRatio(amr, table, ratios, assertsOn, undef) ==
  LET numLevels == GetNumberOfLevels(amr)
  IN IF numLevels < 1 THEN [ratio |-> ratios, status |-> "running"]
     ELSE IF numLevels = 1
     THEN [ratio |-> SetRefinementRatio(ratios, 0, 2), status |-> "running"]
     ELSE RatioLoop(amr, table, ratios, assertsOn, undef, numLevels - 1)

\* a grid of spacing s on all axes
RatioGrid(s) == MakeGrid(Vec(0, 0, 0), Vec(s, s, s), Vec(3, 3, 3))

\* the levels a hierarchy may have: up to MaxRatioSlots slots, each empty
\* or holding a grid
RatioLevelShapes ==
  UNION { [0 .. n - 1 -> { NULL } \cup { RatioGrid(s) : s \in RatioSpacings }] :
            n \in 0 .. MaxRatioSlots }

\* a single process holds a hierarchy of 0 .. MaxRatioLevels levels whose
\* metadata was assembled with origin (0,0,0), and calls
\* ComputeLevelRefinementRatio
RatioInit ==
  /\ hasController = FALSE
  /\ numProcs = 1
  /\ \E amr \in UNION { [0 .. n - 1 -> RatioLevelShapes] :
                          n \in 0 .. MaxRatioLevels } :
       /\ amrData = [r \in Ranks |-> amr]
       /\ metaData = [r \in Ranks |->
                       ComputeLocalMetaData(Vec(0, 0, 0), amr, 0,
                         [level \in DOMAIN amr |->
                           [idx \in DOMAIN amr[level] |-> NoMetaData]])]
  /\ NoLocals
  /\ pc = [r \in Ranks |-> "ComputeLevelRefinementRatio"]
  /\ collectives = [r \in Ranks |-> << >>]
  /\ refinementRatio = [r \in Ranks |-> NoRatios]
  /\ ndebug \in BOOLEAN
  /\ undefInt = 0
  /\ calls = 1

\* one call of ComputeLevelRefinementRatio, from entry to return or abort
ComputeLevelRefinementRatio(r) ==
  /\ pc[r] = "ComputeLevelRefinementRatio"
  /\ \E undef \in [1 .. MaxRatioLevels -> UndefinedReads] :
       LET end == LevelRefinementRatio(amrData[r], metaData[r],
                                       refinementRatio[r], ~ndebug, undef)
       IN /\ refinementRatio' = [refinementRatio EXCEPT ![r] = end.ratio]
          /\ pc' = [pc EXCEPT ![r] = IF end.status = "running"
                                     THEN "returned" ELSE end.status]
  /\ UNCHANGED << hasController, numProcs, amrData, metaData, min, origin,
                  buffer, numBytes, rcvcounts, rbufferSize, offSet,
                  rcvBuffer, amrBoxes, collectives, ndebug, undefInt,
                  calls >>

NextRatio == \E r \in Ranks : ComputeLevelRefinementRatio(r)

SpecRatio == RatioInit /\ [][NextRatio]_vars

\* ------------------------------------ DeserializeMetaData on its own
MaxDecodeSlots == 2

\* the byte lengths a caller may declare for a buffer of size bytes:
\* nothing, the count prefix cut short, the prefix and k whole records, one
\* byte less than the whole, the whole
DeclaredLengths(size) ==
  { n \in { 0, SizeofInt - 1, size - 1 }
          \cup { SizeofInt + k * GetBytesize : k \in 0 .. MaxDecodeSlots } :
      0 <= n /\ n <= size }

\* the buffer is what SerializeMetaData made of a one-level hierarchy, so
\* every read of DeserializeMetaData stays inside the allocation; the byte
\* length handed over is one of DeclaredLengths
DecodeInit ==
  /\ hasController = FALSE
  /\ numProcs = 1
  /\ \E level0 \in [0 .. MaxDecodeSlots - 1 -> GridsAt(0) \cup { NULL }] :
       amrData = [r \in Ranks |-> [level \in { 0 } |-> level0]]
  /\ \E process \in 0 .. 1 :
       metaData = [r \in Ranks |->
                    ComputeLocalMetaData(
                      Vec(0, 0, 0), amrData[r], process,
                      [level \in { 0 } |->
                        [idx \in 0 .. MaxDecodeSlots - 1 |-> NoMetaData]])]
  /\ min = [r \in Ranks |-> Vec(0, 0, 0)]
  /\ origin = [r \in Ranks |-> Vec(0, 0, 0)]
  /\ buffer = [r \in Ranks |-> << >>]
  /\ numBytes = [r \in Ranks |-> 0]
  /\ rcvBuffer = [r \in Ranks |->
                   SerializeMetaData(amrData[r], metaData[r]).buffer]
  /\ rbufferSize = [r \in Ranks |-> Len(rcvBuffer[r])]
  /\ \E declared \in DeclaredLengths(rbufferSize[0]) :
       rcvcounts = [r \in Ranks |-> [i \in { 0 } |-> declared]]
  /\ offSet = [r \in Ranks |-> [i \in { 0 } |-> 0]]
  /\ amrBoxes = [r \in Ranks |-> << >>]
  /\ pc = [r \in Ranks |-> "DeserializeMetaData"]
  /\ collectives = [r \in Ranks |-> << >>]
  /\ refinementRatio = [r \in Ranks |-> NoRatios]
  /\ ndebug \in BOOLEAN
  /\ undefInt = 0
  /\ calls = 1

\* one call DeserializeMetaData( rcvBuffer, rcvcounts[0], amrBoxes[0] ),
\* from entry to return or abort
Deserialize(r) ==
  /\ pc[r] = "DeserializeMetaData"
  /\ IF ~ndebug /\ rcvcounts[r][0] <= 0
     THEN /\ pc' = [pc EXCEPT ![r] = "assert"]
          /\ UNCHANGED amrBoxes
     ELSE /\ amrBoxes' = [amrBoxes EXCEPT ![r] =
                           [i \in { 0 } |->
                             DeserializeMetaData(rcvBuffer[r], offSet[r][i],
                                                 rcvcounts[r][i])]]
          /\ pc' = [pc EXCEPT ![r] = "returned"]
  /\ UNCHANGED << collectives, others, hasController, numProcs,
                  amrData, metaData, min, origin,
                  buffer, numBytes, rcvcounts, rbufferSize, offSet,
                  rcvBuffer >>

NextDecode == \E r \in Ranks : Deserialize(r)

SpecDecode == DecodeInit /\ [][NextDecode]_vars

\* ----------------------------- ComputeLocalMetaData on any grid spacing
\* the spacings of one axis: negative, zero, positive
BoxSpacings == { 0 - Scale, 0, 2, Scale }

\* the origins of the grid and of the dataset, the same on each axis
BoxOrigins == { 0 - Scale, 0, 6 }

\* values of undefInt
UndefinedInts == { 0 - 1000, 0 }

\* one process without a controller, at the call of ComputeLocalMetaData on
\* a hierarchy of one grid whose spacing is any of BoxSpacings per axis
BoxInit ==
  /\ hasController = FALSE
  /\ numProcs = 1
  /\ \E h \in [Axes -> BoxSpacings], o \in BoxOrigins :
       amrData = [r \in Ranks |->
                   [level \in { 0 } |->
                     [idx \in { 0 } |->
                       MakeGrid(Vec(o, o, o), h, Vec(3, 2, 1))]]]
  /\ metaData = [r \in Ranks |-> [level \in { 0 } |->
                                   [idx \in { 0 } |-> NoMetaData]]]
  /\ NoLocals
  /\ pc = [r \in Ranks |-> "ComputeLocalMetaData"]
  /\ collectives = [r \in Ranks |-> << >>]
  /\ refinementRatio = [r \in Ranks |-> NoRatios]
  /\ ndebug \in BOOLEAN
  /\ undefInt \in UndefinedInts
  /\ calls = 1

NextBox == \E r \in Ranks : LocalMetaData(r)

SpecBox == BoxInit /\ [][NextBox]_vars

\* ============================================================== properties
\* the slots of a hierarchy that hold a grid
Patches(data) ==
  { << level, idx >> \in Levels \X Slots : data[level][idx] # NULL }

\* k_i: the number of patches rank i owns
PatchCount(i) == Cardinality(Patches(amrData[i]))

\* the decoded lists of all ranks, as rank r holds them, one after another
Merged(r) == Concat(amrBoxes[r], numProcs)

\* rank r has computed its metadata table
Assembled(r) ==
  pc[r] \in { "SerializeMetaData", "AllGather", "ComputeOffsets",
              "AllGatherV", "Unpack", "CleanUp", "done" }

\* rank r holds its serialized buffer
Serialized(r) ==
  pc[r] \in { "AllGather", "ComputeOffsets", "AllGatherV", "Unpack",
              "CleanUp" }

\* C1: once a rank has unpacked the receive buffer, its decoded lists hold
\* sum(k_i) boxes in all, k_i of them in the list of rank i, and the decoded
\* lists are the same on every rank: the list decoded for rank i is the list
\* of boxes rank i assembled, and any two ranks that have unpacked hold equal
\* lists.
C1_DistributionCount ==
  \A r \in Ranks :
    pc[r] = "CleanUp" =>
      /\ Len(Merged(r)) = SumTo([i \in Ranks |-> PatchCount(i)], numProcs)
      /\ \A i \in Ranks :
           /\ Len(amrBoxes[r][i]) = PatchCount(i)
           /\ amrBoxes[r][i] = CollectBoxes(amrData[i], metaData[i], MaxLevels)
      /\ \A s \in Ranks : pc[s] = "CleanUp" => amrBoxes[s] = amrBoxes[r]

C1_Witness ==
  /\ numProcs = 2
  /\ \A r \in Ranks : pc[r] = "CleanUp"
  /\ PatchCount(0) = 1
  /\ PatchCount(1) = 2
  /\ Len(Merged(0)) = 3

\* C2: when every rank has returned from CollectAMRMetaData, each slot that
\* holds a grid on some rank has a metadata entry on every rank, the same
\* on all of them.
C2_MetaDataOnEveryRank ==
  (\A r \in Ranks : pc[r] = "done") =>
    \A level \in Levels : \A idx \in Slots :
      (\E q \in Ranks : amrData[q][level][idx] # NULL) =>
        \A r \in Ranks : \A s \in Ranks :
          /\ metaData[r][level][idx] # NoMetaData
          /\ metaData[r][level][idx] = metaData[s][level][idx]

\* C3: decoding the buffer SerializeMetaData produced, with the byte length
\* it reported, gives back the box list it encoded, element for element and
\* in order; the empty list included.
C3_RoundTrip ==
  \A r \in Ranks :
    Serialized(r) =>
      LET L == CollectBoxes(amrData[r], metaData[r], MaxLevels)
          D == DeserializeMetaData(buffer[r], 0, numBytes[r])
      IN /\ Len(D) = Len(L)
         /\ \A k \in 1 .. Len(L) : D[k] = L[k]
         /\ Len(buffer[r]) = numBytes[r]

C3_Witness ==
  \E r \in Ranks : \E s \in Ranks :
    /\ Serialized(r)
    /\ Serialized(s)
    /\ PatchCount(r) = 0
    /\ PatchCount(s) >= 3
    /\ \E k \in 1 .. 3 : \E a \in Axes :
         DeserializeMetaData(buffer[s], 0, numBytes[s])[k].lo[a] < 0

\* the lower bounds on axis a of the level-0 patches of all ranks
Level0Bounds(a) ==
  { amrData[q][0][idx].bounds[2 * a] :
      << q, idx >> \in { x \in Ranks \X Slots : amrData[x[1]][0][x[2]] # NULL } }

\* rank q owns a level-0 patch
HasLevel0(q) == \E idx \in Slots : amrData[q][0][idx] # NULL

\* ComputeDataSetOrigin has returned on rank r
OriginResolved(r) == pc[r] = "ComputeLocalMetaData" \/ Assembled(r)

\* origin[a] of rank r is the least lower bound of all level-0 patches
IsGlobalMin(r, a) ==
  /\ origin[r][a] \in Level0Bounds(a)
  /\ \A b \in Level0Bounds(a) : origin[r][a] <= b

\* C4: when every rank holds level-0 patches, the origin ComputeDataSetOrigin
\* returns is, on each axis, the minimum lower bound over all level-0 patches
\* of all ranks, whatever the bounds are, and is the same on every rank.
C4_OriginIsGlobalMin ==
  \A r \in Ranks :
    (OriginResolved(r) /\ \A q \in Ranks : HasLevel0(q)) =>
      /\ \A a \in Axes : IsGlobalMin(r, a)
      /\ \A s \in Ranks : OriginResolved(s) => origin[s] = origin[r]

\* C5: when some rank has no level-0 grid and another has one, the reduced
\* origin is the per-axis minimum of the lower bounds of the ranks that have
\* level-0 grids; the sentinel of the grid-less rank is never the result.
C5_SentinelNeverWins ==
  \A r \in Ranks :
    (/\ OriginResolved(r)
     /\ \E q \in Ranks : ~HasLevel0(q)
     /\ \E q \in Ranks : HasLevel0(q)) =>
      \A a \in Axes : IsGlobalMin(r, a)

\* the bytes rank j encoded
Encoded(j) == SerializeMetaData(amrData[j], metaData[j]).buffer

\* on rank r the range of every rank in the receive buffer holds exactly the
\* bytes that rank encoded
RangesByteExact(r) ==
  \A j \in Ranks :
    Bytes(rcvBuffer[r], offSet[r][j], rcvcounts[r][j]) = Encoded(j)

\* C6 as stated: a rank that owns no patch contributes 0 bytes, and the
\* ranges of the other ranks hold exactly the bytes they encoded.
C6_ZeroPatchesZeroBytes ==
  \A r \in Ranks :
    pc[r] = "Unpack" =>
      \A i \in Ranks :
        PatchCount(i) = 0 => (numBytes[i] = 0 /\ RangesByteExact(r))

\* C6 amended: a rank that owns no patch contributes sizeof(int) bytes, the
\* count prefix of an empty list, and the ranges of all ranks in the receive
\* buffer hold exactly the bytes those ranks encoded.
C6_ZeroPatchesPrefixOnly ==
  \A r \in Ranks :
    pc[r] = "Unpack" =>
      \A i \in Ranks :
        PatchCount(i) = 0 =>
          /\ numBytes[i] = SizeofInt
          /\ rcvcounts[r][i] = SizeofInt
          /\ RangesByteExact(r)

C6_Witness ==
  /\ numProcs = 2
  /\ pc[1] = "Unpack"
  /\ PatchCount(0) = 0
  /\ PatchCount(1) = 2
  /\ offSet[1][1] = SizeofInt
  /\ Len(rcvBuffer[1]) = 2 * SizeofInt + 2 * GetBytesize

\* the boxes of a list that carry the pair (level, p)
WithPair(list, level, p) ==
  { k \in 1 .. Len(list) : list[k].level = level /\ list[k].processId = p }

\* the slots of level `level` that hold a grid on rank p
PatchesAt(p, level) == { idx \in Slots : amrData[p][level][idx] # NULL }

\* C7 as stated: every (level, ownerProcess) pair some rank stamped appears
\* exactly once in the decoded result of every rank.
C7_PairExactlyOnce ==
  \A r \in Ranks :
    pc[r] = "CleanUp" =>
      \A p \in Ranks : \A level \in Levels :
        PatchesAt(p, level) # {} =>
          Cardinality(WithPair(Merged(r), level, p)) = 1

\* C7 amended: every (level, ownerProcess) pair some rank stamped appears in
\* the decoded result of every rank as many times as that rank owns patches
\* at that level, so exactly once when it owns one patch there, and no other
\* pair appears.
C7_PairOncePerPatch ==
  \A r \in Ranks :
    pc[r] = "CleanUp" =>
      /\ \A p \in Ranks : \A level \in Levels :
           Cardinality(WithPair(Merged(r), level, p))
             = Cardinality(PatchesAt(p, level))
      /\ \A k \in 1 .. Len(Merged(r)) :
           /\ Merged(r)[k].processId \in Ranks
           /\ Merged(r)[k].level \in Levels

C7_Witness ==
  /\ numProcs = 2
  /\ pc[0] = "CleanUp"
  /\ Cardinality(PatchesAt(1, 0)) = 2
  /\ Cardinality(PatchesAt(0, 1)) = 1
  /\ Cardinality(WithPair(Merged(0), 0, 1)) = 2
  /\ Cardinality(WithPair(Merged(0), 1, 0)) = 1

\* rank r has computed rbufferSize and offSet and still holds them
OffsetsComputed(r) == pc[r] \in { "AllGatherV", "Unpack", "CleanUp" }

\* byte offset p of the receive buffer of rank r lies in rank i's range
InRange(r, i, p) ==
  offSet[r][i] <= p /\ p < offSet[r][i] + rcvcounts[r][i]

\* C8: offSet[0] = 0, offSet[i] = rcvcounts[0] + ... + rcvcounts[i-1], the
\* receive length is the sum of all counts, the ranges of the ranks are
\* pairwise disjoint, lie in rank order and exactly cover the receive
\* buffer, and the decoding of rank i's list reads rank i's range only.
C8_OffsetsArePrefixSums ==
  \A r \in Ranks :
    OffsetsComputed(r) =>
      /\ offSet[r][0] = 0
      /\ \A i \in Ranks : offSet[r][i] = SumTo(rcvcounts[r], i)
      /\ rbufferSize[r] = SumTo(rcvcounts[r], numProcs)
      /\ \A i \in Ranks : \A j \in Ranks :
           i < j => offSet[r][i] + rcvcounts[r][i] <= offSet[r][j]
      /\ \A p \in 0 .. rbufferSize[r] - 1 :
           Cardinality({ i \in Ranks : InRange(r, i, p) }) = 1
      /\ \A i \in Ranks :
           /\ rcvcounts[r][i] > 0
           /\ offSet[r][i] + rcvcounts[r][i] <= rbufferSize[r]
      /\ pc[r] = "Unpack" =>
           \A i \in Ranks :
             /\ SizeofInt <= rcvcounts[r][i]
             /\ DeserializeEnd(rcvBuffer[r], offSet[r][i])
                  <= offSet[r][i] + rcvcounts[r][i]

C8_Witness ==
  /\ numProcs = 2
  /\ pc[0] = "Unpack"
  /\ rcvcounts[0][0] = SizeofInt + 2 * GetBytesize
  /\ rcvcounts[0][1] = SizeofInt + GetBytesize
  /\ offSet[0][1] = SizeofInt + 2 * GetBytesize
  /\ rbufferSize[0] = 2 * SizeofInt + 3 * GetBytesize

\* the slots of rank r for which it has built a box
Built(r) ==
  { x \in Levels \X Slots :
      Assembled(r) /\ amrData[r][x[1]][x[2]] # NULL }

\* cells of a grid along axis i
CellsOf(grid, i) == grid.dims[i] - 1

\* C9: every box CreateAMRBoxForGrid built has hi[i] >= lo[i] on all three
\* axes, and hi[i] = lo[i] on an axis where the grid has zero cells.
C9_BoxBounds ==
  \A r \in Ranks : \A x \in Built(r) :
    LET box  == metaData[r][x[1]][x[2]]
        grid == amrData[r][x[1]][x[2]]
    IN \A i \in Axes :
         /\ box.hi[i] >= box.lo[i]
         /\ CellsOf(grid, i) = 0 => box.hi[i] = box.lo[i]

C9_Witness ==
  \E r \in Ranks : \E x \in Built(r) : \E i \in Axes :
    /\ CellsOf(amrData[r][x[1]][x[2]], i) = 0
    /\ metaData[r][x[1]][x[2]].hi[i] = metaData[r][x[1]][x[2]].lo[i]
    /\ metaData[r][x[1]][x[2]].lo[i] < 0

\* n is x / h rounded to the nearest integer, halfway cases away from zero
IsRounded(n, x, h) ==
  LET d == IF n * h >= x THEN n * h - x ELSE x - n * h
  IN /\ 2 * d <= h
     /\ 2 * d = h => (IF x >= 0 THEN n * h > x ELSE n * h < x)

\* the grid of the concrete scenario: origin (0,0,0), spacing (1,1,1),
\* 4 x 4 x 1 cells
ScenarioGrid == MakeGrid(Vec(0, 0, 0), Vec(Scale, Scale, Scale), Vec(5, 5, 2))

\* rank 0 is a single process whose only grid is the scenario grid, at
\* level 0 slot 0
Scenario ==
  /\ numProcs = 1
  /\ Patches(amrData[0]) = { << 0, 0 >> }
  /\ amrData[0][0][0] = ScenarioGrid

\* C10: a built box has lo[i] = round((g[i] - o[i]) / h[i]) and
\* hi[i] = lo[i] + max(c[i], 1) - 1 on each axis, o being the origin the
\* rank resolved; the single-process scenario gives global origin (0,0,0),
\* lo = (0,0,0) and hi = (3,3,0).
C10_BoxFormula ==
  /\ \A r \in Ranks : \A x \in Built(r) :
       LET box  == metaData[r][x[1]][x[2]]
           grid == amrData[r][x[1]][x[2]]
       IN \A i \in Axes :
            /\ IsRounded(box.lo[i], grid.origin[i] - origin[r][i],
                         grid.spacing[i])
            /\ box.hi[i] = box.lo[i]
                 + (IF CellsOf(grid, i) > 1 THEN CellsOf(grid, i) ELSE 1) - 1
            /\ box.origin = origin[r]
            /\ box.spacing = grid.spacing
  /\ (Scenario /\ Assembled(0)) =>
       /\ origin[0] = Vec(0, 0, 0)
       /\ metaData[0][0][0].lo = Vec(0, 0, 0)
       /\ metaData[0][0][0].hi = Vec(3, 3, 0)

C10_Witness ==
  /\ Scenario
  /\ pc[0] = "done"
  /\ metaData[0][0][0].hi = Vec(3, 3, 0)

\* a box whose lo is a halfway case, rounded away from zero on both sides
C10_HalfwayWitness ==
  \E r \in Ranks : \E x \in Built(r) :
    LET box  == metaData[r][x[1]][x[2]]
        grid == amrData[r][x[1]][x[2]]
    IN /\ 2 * (grid.origin[0] - origin[r][0]) = grid.spacing[0]
       /\ box.lo[0] = 1
       /\ 2 * (grid.origin[1] - origin[r][1]) = 0 - 3 * grid.spacing[1]
       /\ box.lo[1] = 0 - 2

\* C13: every metadata entry the assembler published for slot (level, idx)
\* carries that level and the id of the calling rank as process id, which is
\* 0 when CollectAMRMetaData is called without a controller.
C13_LevelAndOwnerStamped ==
  \A r \in Ranks : \A x \in Built(r) :
    LET box == metaData[r][x[1]][x[2]]
    IN /\ box.level = x[1]
       /\ box.processId = r
       /\ (~hasController) => box.processId = 0

C13_Witness ==
  /\ numProcs = 2
  /\ << 1, 1 >> \in Built(1)
  /\ << 0, 0 >> \in Built(0)
  /\ metaData[1][1][1].processId = 1
  /\ metaData[1][1][1].level = 1
  /\ metaData[0][0][0].processId = 0

\* the least element of a non-empty set of integers
Least(S) == CHOOSE m \in S : \A x \in S : m <= x

\* the table local assembly gives rank r, from an empty table
LocalTable(r) ==
  ComputeLocalMetaData(origin[r], amrData[r], IF hasController THEN r ELSE 0,
                       [level \in Levels |-> [idx \in Slots |-> NoMetaData]])

\* the origin and the metadata of rank r are the locally computed ones
LocalPassThrough(r) ==
  /\ OriginResolved(r) =>
       \A a \in Axes : origin[r][a] = Least({ Sentinel } \cup Level0Bounds(a))
  /\ pc[r] = "done" => metaData[r] = LocalTable(r)

\* C16 as stated: a single-process call, without a controller or with a
\* controller of exactly one process, issues none of the three collectives
\* and yields the locally computed origin and metadata.
C16_SingleProcessNoCollectives ==
  numProcs = 1 => (collectives[0] = << >> /\ LocalPassThrough(0))

\* C16 amended: a call without a controller issues none of the three
\* collectives; a call with a controller of exactly one process issues no
\* min reduction but still issues the scalar all-gather and then the
\* variable-length all-gather; both yield the locally computed origin and
\* metadata.
C16_SingleProcessCollectives ==
  numProcs = 1 =>
    /\ (~hasController) => collectives[0] = << >>
    /\ \A k \in 1 .. Len(collectives[0]) : collectives[0][k] # "AllReduce"
    /\ (hasController /\ pc[0] = "done") =>
         collectives[0] = << "AllGather", "AllGatherV" >>
    /\ LocalPassThrough(0)

C16_Witness ==
  /\ numProcs = 1
  /\ hasController
  /\ pc[0] = "done"
  /\ collectives[0] = << "AllGather", "AllGatherV" >>
  /\ PatchCount(0) = 2

\* the collectives a call issues under the topology of this run
ExpectedCollectives ==
  IF ~hasController THEN << >>
  ELSE (IF numProcs > 1 THEN << "AllReduce", "AllReduce", "AllReduce" >>
        ELSE << >>) \o << "AllGather", "AllGatherV" >>

\* s is an initial part of t
IsPrefix(s, t) == Len(s) <= Len(t) /\ \A k \in 1 .. Len(s) : s[k] = t[k]

\* every rank has returned, having issued exactly the expected collectives
AllReturned ==
  \A r \in Ranks : pc[r] = "done" /\ collectives[r] = ExpectedCollectives

\* C20: every rank issues the same sequence of collectives, three min
\* reductions if and only if there is more than one process, then one scalar
\* all-gather, then one variable-length all-gather, whatever it owns, and
\* every rank's call eventually returns.
C20_SameCollectivesAndReturn ==
  /\ [](\A r \in Ranks : IsPrefix(collectives[r], ExpectedCollectives))
  /\ <>AllReturned

C20_Witness ==
  /\ numProcs = 2
  /\ AllReturned
  /\ Len(collectives[0]) = 5
  /\ PatchCount(0) = 0
  /\ PatchCount(1) = 3

\* the one grid of each level the runs of FairSpec use: what a rank issues
\* depends on which slots hold a grid, not on the geometry of the grids
LiveGridAt(level) ==
  IF level = 0 THEN ScenarioGrid ELSE CHOOSE g \in GridsAt(level) : TRUE

\* Init with one grid geometry per level; every assignment of slots to
\* ranks remains
LiveInit ==
  /\ Init
  /\ \A r \in Ranks : \A level \in Levels : \A idx \in Slots :
       amrData[r][level][idx] \in { NULL, LiveGridAt(level) }

\* the scheduler lets every rank run, and a collective completes once every
\* rank has entered it
FairSpec == LiveInit /\ [][Next]_vars /\ WF_vars(Next)

\* C14: once a rank has assembled its metadata, a slot of its hierarchy is
\* empty if and only if no metadata entry is published for it.
C14_EmptyIffNoEntry ==
  \A r \in Ranks :
    Assembled(r) =>
      \A level \in Levels : \A idx \in Slots :
        (amrData[r][level][idx] = NULL)
          <=> (metaData[r][level][idx] = NoMetaData)

\* C15: after each call, whatever grids were added or removed before it, no
\* rank holds a metadata entry for a slot that is empty in that call.
C15_NoStaleEntry ==
  (\A r \in Ranks : pc[r] = "done") =>
    \A r \in Ranks : \A level \in Levels : \A idx \in Slots :
      EmptyEverywhere(level, idx) => metaData[r][level][idx] = NoMetaData

\* the hierarchy ComputeLevelRefinementRatio is given
RatioLevels == GetNumberOfLevels(amrData[0])

\* the call of ComputeLevelRefinementRatio has ended
RatioEnded == pc[0] \in { "returned", "assert", "crashed" }

\* slot 0 of the level exists and holds a grid
HasSlot0(level) ==
  /\ GetNumberOfDataSets(amrData[0], level) >= 1
  /\ amrData[0][level][0] # NULL

\* spacing along axis 0 of the grid in slot 0 of the level
Slot0Spacing(level) == amrData[0][level][0].spacing[0]

\* C11: with 0 levels ComputeLevelRefinementRatio writes no ratio; with one
\* level it records 2 for level 0; with two levels or more, slot 0 of each
\* holding a grid, it records for each level L >= 1 the spacing of slot 0 at
\* level L-1 over that at level L, rounded, and for level 0 the value of
\* level 1.
C11_RefinementRatios ==
  RatioEnded =>
    /\ RatioLevels = 0 => (pc[0] = "returned" /\ refinementRatio[0] = << >>)
    /\ RatioLevels = 1 =>
         /\ pc[0] = "returned"
         /\ DOMAIN refinementRatio[0] = { 0 }
         /\ refinementRatio[0][0] = 2
    /\ (RatioLevels >= 2 /\ \A l \in 0 .. RatioLevels - 1 : HasSlot0(l)) =>
         /\ pc[0] = "returned"
         /\ DOMAIN refinementRatio[0] = 0 .. RatioLevels - 1
         /\ \A L \in 1 .. RatioLevels - 1 :
              IsRounded(refinementRatio[0][L], Slot0Spacing(L - 1),
                        Slot0Spacing(L))
         /\ refinementRatio[0][0] = refinementRatio[0][1]

\* spacings 1.0, 0.75, 0.5: the ratios are 1 (from 1.33) and 2 (from 1.5)
C11_Witness ==
  /\ pc[0] = "returned"
  /\ RatioLevels = 3
  /\ \A l \in 0 .. 2 : HasSlot0(l)
  /\ Slot0Spacing(0) = Scale
  /\ Slot0Spacing(1) = 3
  /\ Slot0Spacing(2) = 2
  /\ refinementRatio[0][0] = 1
  /\ refinementRatio[0][1] = 1
  /\ refinementRatio[0][2] = 2

\* the call has returned on three levels of spacing 1.0, 0.5 and 0.25
ThreeLevelsHalving ==
  /\ pc[0] = "returned"
  /\ RatioLevels = 3
  /\ \A l \in 0 .. 2 : HasSlot0(l)
  /\ Slot0Spacing(0) = Scale
  /\ 2 * Slot0Spacing(1) = Scale
  /\ 2 * Slot0Spacing(2) = Slot0Spacing(1)

\* C12 as stated: three levels of spacing 1.0, 0.5 and 0.25 get the ratios
\* 2, 2 and 4.
C12_Ratios224 ==
  ThreeLevelsHalving =>
    refinementRatio[0] = [l \in 0 .. 2 |-> IF l = 2 THEN 4 ELSE 2]

\* C12 amended: three levels of spacing 1.0, 0.5 and 0.25 get the ratios
\* 2, 2 and 2: each ratio is taken against the next coarser level.
C12_Ratios222 ==
  ThreeLevelsHalving => refinementRatio[0] = [l \in 0 .. 2 |-> 2]

C12_Witness ==
  /\ ThreeLevelsHalving
  /\ refinementRatio[0][2] = 2

\* the level holds no grid
NoPatches(level) ==
  \A idx \in DOMAIN amrData[0][level] : amrData[0][level][idx] = NULL

\* C19: on two levels or more, ComputeLevelRefinementRatio fails, and reads
\* no metadata of a slot without an entry, whenever one of the levels has no
\* patch.
C19_EmptyLevelFails ==
  (/\ RatioEnded
   /\ RatioLevels >= 2
   /\ \E l \in 0 .. RatioLevels - 1 : NoPatches(l)) => pc[0] = "assert"

\* the count prefix of the buffer handed to DeserializeMetaData
DecodeCount == BytesToInt(Bytes(rcvBuffer[0], offSet[0][0], SizeofInt))

\* the call of DeserializeMetaData has ended
DecodeEnded == pc[0] \in { "returned", "assert" }

\* the number of records the call has decoded into amrBoxes[0]
DecodedRecords == IF amrBoxes[0] = << >> THEN 0 ELSE Len(amrBoxes[0][0])

\* one past the last byte of the last record decoded
DecodedEnd == SizeofInt + DecodedRecords * GetBytesize

\* C17: DeserializeMetaData called with a byte length smaller than
\* 4 + count * GetBytesize, count being the prefix read from the buffer,
\* fails and decodes no record from beyond the declared byte length.
C17_TruncatedBufferFails ==
  (/\ DecodeEnded
   /\ rcvcounts[0][0] < SizeofInt + DecodeCount * GetBytesize)
  => /\ pc[0] # "returned"
     /\ DecodedRecords = 0 \/ DecodedEnd <= rcvcounts[0][0]

\* the grid handed to CreateAMRBoxForGrid
BoxGrid == amrData[0][0][0]

\* C18: CreateAMRBoxForGrid fails, and publishes no box, whenever a
\* component of the grid's spacing is <= 0.
C18_InvalidGridFails ==
  (/\ pc[0] # "ComputeLocalMetaData"
   /\ \E a \in Axes : BoxGrid.spacing[a] <= 0)
  => /\ pc[0] # "done"
     /\ metaData[0][0][0] = NoMetaData

====
